---- MODULE Spec2Model ----
(***************************************************************************)
(* A model of the `dns query` command of nu_plugin_dns                     *)
(* (src/src/dns/mod.rs): Dns::run_impl and Dns::query.                     *)
(*                                                                         *)
(* One invocation is modelled.  The position in Dns::query is `pc`; the    *)
(* locals of the function are variables of the same name.  A flag of the   *)
(* call is drawn when call.get_flag_value reads it (every flag is read at  *)
(* most once), the piped input and the positional arguments are fixed at   *)
(* the start.  The futures built for join_all are issued one by one and    *)
(* complete one by one, in any order.                                      *)
(***************************************************************************)
EXTENDS Integers, Sequences, FiniteSets, TLC

\* ------------------------------------------------------------------ bounds

\* The largest number of positional arguments of a call.
MaxArgs == 2

\* ------------------------------------------------------- program constants

\* constants::config::SERVER_PORT, the fixed default DNS port.
SERVER_PORT == 53
\* The longest label of a domain name, in bytes.
MaxLabelLen == 63
\* The longest encoded domain name, in bytes.
MaxNameLen == 255

\* ------------------------------------------------------------------ values
\* nu_protocol::Value as a tagged record.  A String holds its text as a
\* sequence of characters, a Binary its bytes, a List its elements.

Str(chars)  == [kind |-> "String", val |-> chars]
Bin(bytes)  == [kind |-> "Binary", val |-> bytes]
Lst(vals)   == [kind |-> "List", val |-> vals]
IntVal      == [kind |-> "Int", val |-> <<>>]
ErrorVal    == [kind |-> "Error", val |-> <<>>]
NothingVal  == [kind |-> "Nothing", val |-> <<>>]
\* Option::None of call.get_flag_value, and a flag the call has not read yet.
Absent      == [kind |-> "Absent", val |-> <<>>]
Unread      == [kind |-> "Unread", val |-> <<>>]

\* Value::span(): every variant carries its span but Value::Error, for which
\* span() returns Err(error); `val.span()?` then leaves Dns::query with that
\* error, converted to a LabeledError, instead of the error being built.
SpanOk(v) == v.kind # "Error"

\* ------------------------------------------------------------------ errors

NoError == "none"
\* What `?` makes of the ShellError of a failed span().
ShellErrorLabel == "ShellError"

\* ------------------------------------------------------------ domain names
\* trust_dns_resolver::Name: its labels (byte strings) and the fqdn flag.

MkName(labels, fqdn) == [labels |-> labels, fqdn |-> fqdn]
NoName == MkName(<<>>, FALSE)
NameOk(n)  == [ok |-> TRUE, name |-> n]
NameErr    == [ok |-> FALSE, name |-> NoName]

\* The characters of the model's strings and their ASCII codes; "!" is a
\* character no label may hold.
CharCode == ("a" :> 97) @@ ("b" :> 98) @@ ("!" :> 33)
LabelChars == {"a", "b"}

RECURSIVE SplitOn(_, _)
\* The pieces of s between the occurrences of sep (str::split).
SplitOn(s, sep) ==
    IF s = <<>> THEN << <<>> >>
    ELSE LET rest == SplitOn(Tail(s), sep)
         IN  IF Head(s) = sep
             THEN << <<>> >> \o rest
             ELSE << <<Head(s)>> \o Head(rest) >> \o Tail(rest)

RECURSIVE EncodedLen(_)
\* Name::len: one length byte and the bytes of every label, and the root.
EncodedLen(labels) ==
    IF labels = <<>> THEN 1
    ELSE 1 + Len(Head(labels)) + EncodedLen(Tail(labels))

\* Label::from_ascii: not empty, at most 63 bytes, label characters only.
AsciiLabelOk(seg) ==
    /\ Len(seg) >= 1
    /\ Len(seg) <= MaxLabelLen
    /\ \A i \in 1..Len(seg) : seg[i] \in LabelChars

\* Label::from_raw_bytes: not empty, at most 63 bytes.
RawLabelOk(bytes) == Len(bytes) >= 1 /\ Len(bytes) <= MaxLabelLen

\* Name::from_utf8: "." is the root; else the text is cut at the dots, a
\* final dot makes the name fully qualified, every label must be a valid
\* one and the encoded name at most 255 bytes.
FromUtf8(s) ==
    IF s = <<".">> THEN NameOk(MkName(<<>>, TRUE))
    ELSE LET segs   == SplitOn(s, ".")
             n      == Len(segs)
             dotted == n > 1 /\ segs[n] = <<>>
             segl   == IF segs[n] = <<>> THEN SubSeq(segs, 1, n - 1) ELSE segs
             labels == [i \in 1..Len(segl) |->
                          [j \in 1..Len(segl[i]) |-> CharCode[segl[i][j]]]]
         IN  IF /\ \A i \in 1..Len(segl) : AsciiLabelOk(segl[i])
                /\ EncodedLen(labels) <= MaxNameLen
             THEN NameOk(MkName(labels, dotted))
             ELSE NameErr

\* Name::from_labels: every label converted, the name fully qualified.
FromLabels(labels) ==
    IF /\ \A i \in 1..Len(labels) : RawLabelOk(labels[i])
       /\ EncodedLen(labels) <= MaxNameLen
    THEN NameOk(MkName(labels, TRUE))
    ELSE NameErr

\* ------------------------------------------------------------- name parser
\* mod.rs 58-94.  A parse result: the error label (NoError on success) and
\* the parsed value.

Parsed(v)   == [err |-> NoError, val |-> v]
Failed(lbl) == [err |-> lbl, val |-> <<>>]

\* The first element of a label list that is no Binary, 0 if all are:
\* collect::<Result<Vec<_>, _>> stops at the first Err.
FirstNonBinary(vals) ==
    LET bad == {i \in 1..Len(vals) : vals[i].kind # "Binary"}
    IN  IF bad = {} THEN 0 ELSE CHOOSE i \in bad : \A j \in bad : i <= j

\* mod.rs 68-87: a list of binary labels.
ParseLabelList(vals) ==
    LET k == FirstNonBinary(vals)
    IN  IF k # 0
        THEN IF SpanOk(vals[k]) THEN Failed("InvalidNameError")
                                ELSE Failed(ShellErrorLabel)
        ELSE LET r == FromLabels([i \in 1..Len(vals) |-> vals[i].val])
             IN  IF r.ok THEN Parsed(r.name) ELSE Failed("NameParseError")

\* mod.rs 60-93: one input value to a name.
ParseNameValue(v) ==
    CASE v.kind = "String" ->
           LET r == FromUtf8(v.val)
           IN  IF r.ok THEN Parsed(r.name) ELSE Failed("InvalidNameError")
      [] v.kind = "List" -> ParseLabelList(v.val)
      [] OTHER -> IF SpanOk(v) THEN Failed("InvalidInputTypeError")
                               ELSE Failed(ShellErrorLabel)

\* The first input that does not parse, 0 if all do.
FirstFailing(input) ==
    LET bad == {i \in 1..Len(input) : ParseNameValue(input[i]).err # NoError}
    IN  IF bad = {} THEN 0 ELSE CHOOSE i \in bad : \A j \in bad : i <= j

\* mod.rs 58-94: map and collect::<Result<Vec<_>, _>>: the names in input
\* order, or the error of the first input that fails.
ParseNames(input) ==
    LET k == FirstFailing(input)
    IN  IF k # 0 THEN Failed(ParseNameValue(input[k]).err)
        ELSE Parsed([i \in 1..Len(input) |-> ParseNameValue(input[i]).val])

\* ---------------------------------------------------------- input resolver

\* mod.rs 43-56: the name inputs of the call: the positional arguments when
\* nothing is piped, the piped value alone when no argument is given.
ResolveInput(pipeVal, argVals) ==
    IF pipeVal.kind = "Nothing" THEN Parsed(argVals)
    ELSE IF argVals # <<>>
         THEN IF SpanOk(pipeVal) THEN Failed("AmbiguousInputError")
                                 ELSE Failed(ShellErrorLabel)
         ELSE Parsed(<<pipeVal>>)

\* ---------------------------------------------------------- flag decoders
\* serde::Protocol, serde::RType, serde::DNSClass and serde::DnssecMode
\* (TryFrom<Value>): a mnemonic is decoded to the identifier it names, any
\* other value is a decoding error.  The text of a flag is one token.

ProtocolOf == ("udp" :> "Udp") @@ ("tcp" :> "Tcp") @@ ("tls" :> "Tls")
                @@ ("https" :> "Https")
\* RecordType, by its code.
RecordTypeOf == ("A" :> 1) @@ ("AAAA" :> 28) @@ ("MX" :> 15)
\* DNSClass, by its code.
ClassOf == ("IN" :> 1) @@ ("CH" :> 3)
DnssecModeOf == ("strict" :> "Strict") @@ ("opportunistic" :> "Opportunistic")
                  @@ ("disabled" :> "Disabled")

Decode(table, v, lbl) ==
    IF v.kind = "String" /\ Len(v.val) = 1 /\ v.val[1] \in DOMAIN table
    THEN Parsed(table[v.val[1]])
    ELSE Failed(lbl)

DecodeProtocol(v) == Decode(ProtocolOf, v, "ProtocolDecodeError")
DecodeRType(v)    == Decode(RecordTypeOf, v, "RecordTypeDecodeError")
DecodeClass(v)    == Decode(ClassOf, v, "DNSClassDecodeError")
DecodeDnssec(v)   == Decode(DnssecModeOf, v, "DnssecModeDecodeError")

\* Option<Protocol>::None.
NoProtocol == "None"

\* ResolveProtocol with a flag that does not decode taken as no flag.
ResolveProtocolLenient(flag) ==
    IF flag = Absent \/ DecodeProtocol(flag).err # NoError
    THEN Parsed(NoProtocol)
    ELSE DecodeProtocol(flag)

\* mod.rs 96-99: the explicit protocol, if the flag is given.
ResolveProtocol(flag) ==
    IF flag = Absent THEN Parsed(NoProtocol) ELSE DecodeProtocol(flag)

\* Option::unwrap_or.
UnwrapOr(opt, default) == IF opt = NoProtocol THEN default ELSE opt

\* ------------------------------------------------------- server selection

SockAddr(ip, port) == [ip |-> ip, port |-> port]
NameServer(ip, port, proto) == [socket_addr |-> SockAddr(ip, port), protocol |-> proto]
NoAddr == SockAddr("", 0)

\* The address literals and port texts of the model's strings.
IpLiterals == {"203.0.113.5"}
PortOf == ("8053" :> 8053) @@ ("53" :> 53)

AddrOk(a) == [ok |-> TRUE, addr |-> a]
AddrErr   == [ok |-> FALSE, addr |-> NoAddr]

\* SocketAddr::from_str: an address, a colon and a port.
SocketAddrFromStr(s) ==
    IF Len(s) = 3 /\ s[1] \in IpLiterals /\ s[2] = ":" /\ s[3] \in DOMAIN PortOf
    THEN AddrOk(SockAddr(s[1], PortOf[s[3]]))
    ELSE AddrErr

\* IpAddr::from_str: an address alone.
IpAddrFromStr(s) ==
    IF Len(s) = 1 /\ s[1] \in IpLiterals THEN [ok |-> TRUE, ip |-> s[1]]
    ELSE [ok |-> FALSE, ip |-> ""]

\* mod.rs 103-107: host:port, or else a bare address on the default port.
ParseServerAddr(s) ==
    LET sa == SocketAddrFromStr(s)
        ip == IpAddrFromStr(s)
    IN  IF sa.ok THEN sa
        ELSE IF ip.ok THEN AddrOk(SockAddr(ip.ip, SERVER_PORT))
        ELSE AddrErr

\* ResolverConfig::default(): the name servers of the built-in configuration.
DefaultNameServers ==
    << NameServer("8.8.8.8", 53, "Udp"), NameServer("8.8.8.8", 53, "Tcp") >>

\* The outcome of trust_dns_resolver::system_conf::read_system_conf().
ConfRead(ns)  == [state |-> "ok", name_servers |-> ns]
ConfReadError == [state |-> "error", name_servers |-> <<>>]
\* The configuration of an invocation that has not read it.
ConfNotRead   == [state |-> "not read", name_servers |-> <<>>]

\* mod.rs 117-118: Result::unwrap_or_default: the configuration read, and the
\* default configuration when reading fails.
UnwrapOrDefault(conf) ==
    IF conf.state = "ok" THEN conf.name_servers ELSE DefaultNameServers

\* mod.rs 116: the system configuration is read only without --server.
ReadsSystemConf(serverFlag) == serverFlag = Absent

Target(addr, span, proto) ==
    [err |-> NoError, addr |-> addr, addr_span |-> span, protocol |-> proto]
NoTarget(lbl) ==
    [err |-> lbl, addr |-> NoAddr, addr_span |-> "None", protocol |-> NoProtocol]

\* mod.rs 119-129: no --server: the first name server of the system
\* configuration, or of the default one when the system has none.
SystemTarget(conf, protocol) ==
    LET servers == UnwrapOrDefault(conf)
    IN  IF servers # <<>>
        THEN Target(servers[1].socket_addr, "None", servers[1].protocol)
        ELSE LET ns == DefaultNameServers[1]
             IN  Target(ns.socket_addr, "None", UnwrapOr(protocol, ns.protocol))

\* mod.rs 101-138: (addr, addr_span, protocol).
ResolveServer(serverFlag, protocol, conf) ==
    CASE serverFlag.kind = "String" ->
           LET a == ParseServerAddr(serverFlag.val)
           IN  IF a.ok THEN Target(a.addr, "Some", UnwrapOr(protocol, "Udp"))
               ELSE NoTarget("InvalidServerAddress")
      [] serverFlag = Absent -> SystemTarget(conf, protocol)
      [] OTHER -> IF SpanOk(serverFlag) THEN NoTarget("InvalidServerAddressInputError")
                                        ELSE NoTarget(ShellErrorLabel)

\* ------------------------------------------------------- query parameters

\* The first element of a --type list that does not decode, 0 if all do.
FirstUndecodable(vals) ==
    LET bad == {i \in 1..Len(vals) : DecodeRType(vals[i]).err # NoError}
    IN  IF bad = {} THEN 0 ELSE CHOOSE i \in bad : \A j \in bad : i <= j

\* DefaultTypes in the other order.
DefaultTypesSwapped == << RecordTypeOf["A"], RecordTypeOf["AAAA"] >>

\* mod.rs 149: the record types of a call without --type.
DefaultTypes == << RecordTypeOf["AAAA"], RecordTypeOf["A"] >>

\* mod.rs 140-150: a list of mnemonics, one mnemonic, or the default.
ResolveTypes(flag) ==
    CASE flag.kind = "List" ->
           LET k == FirstUndecodable(flag.val)
           IN  IF k # 0 THEN Failed(DecodeRType(flag.val[k]).err)
               ELSE Parsed([i \in 1..Len(flag.val) |-> DecodeRType(flag.val[i]).val])
      [] flag = Absent -> Parsed(DefaultTypes)
      [] OTHER ->
           LET r == DecodeRType(flag)
           IN  IF r.err # NoError THEN Failed(r.err) ELSE Parsed(<<r.val>>)

\* mod.rs 152-155.
ResolveClass(flag) ==
    IF flag = Absent THEN Parsed(ClassOf["IN"]) ELSE DecodeClass(flag)

\* mod.rs 157-160.
ResolveDnssec(flag) ==
    IF flag = Absent THEN Parsed("Opportunistic") ELSE DecodeDnssec(flag)


\* -------------------------------------------------------------- dispatcher

\* CrossProduct with the loops exchanged: for every type, every name.
CrossProductTypeMajor(ns, ts) ==
    [k \in 1..(Len(ns) * Len(ts)) |->
        [name  |-> ns[((k - 1) % Len(ns)) + 1],
         qtype |-> ts[((k - 1) \div Len(ns)) + 1]]]

\* mod.rs 164-169: the queries of join_all's argument, in the order the
\* iterator yields them: for every name, in order, every record type, in
\* order.
CrossProduct(ns, ts) ==
    [k \in 1..(Len(ns) * Len(ts)) |->
        [name  |-> ns[((k - 1) \div Len(ts)) + 1],
         qtype |-> ts[((k - 1) % Len(ts)) + 1]]]

\* mod.rs 167: client.query(name, dns_class, qtype): the request is sent and
\* its future is pending.
NewQuery(pair, class) ==
    [name |-> pair.name, qtype |-> pair.qtype, class |-> class, state |-> "pending"]

\* mod.rs 164: join_all's argument is collected, every future built, before
\* the joined future is awaited.
AllIssued(futs, pairs) == Len(futs) = Len(pairs)

\* JoinReady as try_join_all has it: ready at the first failure, too.
JoinReadyFailFast(futs) ==
    \/ \E i \in 1..Len(futs) : futs[i].state = "err"
    \/ \A i \in 1..Len(futs) : futs[i].state # "pending"

\* mod.rs 170: join_all is ready when every future has finished.
JoinReady(futs) == \A i \in 1..Len(futs) : futs[i].state # "pending"

\* The response of the name server to a query: it repeats the question.
Response(f) ==
    [query |-> [name |-> f.name, query_type |-> f.qtype, query_class |-> f.class]]

\* mod.rs 180: serde::Message(..).into_value(call): the message as a record.
SerializeMessage(resp) ==
    [header |-> "response", question |-> <<resp.query>>]

\* mod.rs 196: SocketAddr::to_string.
AddrToString(a) == <<a.ip, ":", a.port>>
\* mod.rs 197: Protocol::to_string.
ProtocolToString(p) ==
    (("Udp" :> "udp") @@ ("Tcp" :> "tcp") @@ ("Tls" :> "tls") @@ ("Https" :> "https"))[p]

NoNameServer == [address |-> <<>>, protocol |-> ""]
NoResult     == [tag |-> "none", label |-> NoError,
                 nameserver |-> NoNameServer, messages |-> <<>>]
ErrResult(lbl) == [tag |-> "Err", label |-> lbl,
                   nameserver |-> NoNameServer, messages |-> <<>>]
\* mod.rs 184-204: the output record.
OkResult(addr, proto, msgs) ==
    [tag |-> "Ok", label |-> NoError,
     nameserver |-> [address |-> AddrToString(addr),
                     protocol |-> ProtocolToString(proto)],
     messages |-> msgs]

RECURSIVE Successes(_)
\* The serialized responses of the queries that succeeded.
Successes(futs) ==
    IF futs = <<>> THEN <<>>
    ELSE IF Head(futs).state = "ok"
         THEN <<SerializeMessage(Response(Head(futs)))>> \o Successes(Tail(futs))
         ELSE Successes(Tail(futs))

\* Collect with the failed queries skipped instead of failing the batch.
CollectPartial(futs, tgt) ==
    OkResult(tgt.addr, tgt.protocol, Successes(futs))

\* mod.rs 170-182: the joined results in the order of the futures: the
\* error of a failed query, or every response serialized.
Collect(futs, tgt) ==
    IF \E i \in 1..Len(futs) : futs[i].state = "err"
    THEN ErrResult("DNSResponseError")
    ELSE OkResult(tgt.addr, tgt.protocol,
                  [i \in 1..Len(futs) |-> SerializeMessage(Response(futs[i]))])

\* The driver bound to the pattern `_`: dropped where it is constructed.
BgDropped == "released"

\* mod.rs 162: `_bg` is a named binding: the driver lives to the end of
\* the function's scope.
BgBinding == "alive"

\* ------------------------------------------------------------------ inputs

S_ab    == Str(<<"a", ".", "b">>)
S_bad   == Str(<<"a", ".", ".", "b">>)
L_ab    == Lst(<<Bin(<<97>>), Bin(<<98>>)>>)
L_empty == Lst(<<Bin(<<97>>), Bin(<<>>)>>)
L_long  == Lst(<<Bin([i \in 1..(MaxLabelLen + 1) |-> 97])>>)
L_mixed == Lst(<<Bin(<<>>), IntVal>>)
L_error == Lst(<<Bin(<<97>>), ErrorVal, IntVal>>)

\* The values of a name input.
NameValues ==
    {S_ab, S_bad, L_ab, L_empty, L_long, L_mixed, L_error, IntVal, ErrorVal}

RECURSIVE SeqsUpTo(_, _)
\* The sequences over S of length at most n.
SeqsUpTo(S, n) ==
    IF n = 0 THEN {<<>>}
    ELSE LET shorter == SeqsUpTo(S, n - 1)
         IN  shorter \cup {Append(q, x) : q \in shorter, x \in S}

Commands      == {"dns query", "dns lookup"}
PipeValues    == {NothingVal} \cup NameValues
ProtocolFlags == {Absent, Str(<<"tls">>), Str(<<"bogus">>)}
ServerFlags   == {Absent, Str(<<"203.0.113.5">>),
                  Str(<<"203.0.113.5", ":", "8053">>),
                  Str(<<"dns.example">>), IntVal, ErrorVal}
TypeFlags     == {Absent, Str(<<"MX">>), Str(<<"bogus">>),
                  Lst(<<Str(<<"A">>), Str(<<"MX">>)>>),
                  Lst(<<Str(<<"A">>), Str(<<"bogus">>)>>)}
ClassFlags    == {Absent, Str(<<"CH">>), Str(<<"bogus">>)}
DnssecFlags   == {Absent, Str(<<"strict">>), Str(<<"bogus">>)}
SystemConfs   == {ConfReadError, ConfRead(<<>>),
                  ConfRead(<<NameServer("192.0.2.1", 53, "Tcp"),
                             NameServer("192.0.2.2", 53, "Udp")>>)}

NoFlags == [protocol |-> Unread, server |-> Unread, type |-> Unread,
            class |-> Unread, dnssec |-> Unread]

\* ------------------------------------------------------------------- state

VARIABLES
    cmd,          \* run_impl's name
    pipe,         \* run_impl's input, the piped value
    args,         \* call.rest(0), the positional arguments
    flags,        \* the flags of the call read so far
    sysconf,      \* what read_system_conf() returned
    pc,           \* the position in run_impl / query
    ran,          \* the steps of query run so far, in order
    input,        \* query's locals
    names,
    protocol,
    target,       \* (addr, addr_span, protocol)
    qtypes,
    dns_class,
    dnssec_mode,
    client,       \* "none" | "connected"
    bg,           \* the background driver: "none" | "alive" | "released"
    futures,      \* the futures handed to join_all
    reordered,    \* a query finished while an earlier one was pending
    result        \* what run_impl returns

vars == <<cmd, pipe, args, flags, sysconf, pc, ran, input, names, protocol,
          target, qtypes, dns_class, dnssec_mode, client, bg, futures,
          reordered, result>>

call   == <<cmd, pipe, args>>
locals == <<input, names, protocol, target, qtypes, dns_class, dnssec_mode>>
conn   == <<client, bg, futures, reordered>>

Init ==
    /\ cmd \in Commands
    /\ pipe \in PipeValues
    /\ args \in SeqsUpTo(NameValues, MaxArgs)
    /\ flags = NoFlags
    /\ sysconf = ConfNotRead
    /\ pc = "run_impl"
    /\ ran = <<>>
    /\ input = <<>>
    /\ names = <<>>
    /\ protocol = NoProtocol
    /\ target = NoTarget(NoError)
    /\ qtypes = <<>>
    /\ dns_class = 0
    /\ dnssec_mode = ""
    /\ client = "none"
    /\ bg = "none"
    /\ futures = <<>>
    /\ reordered = FALSE
    /\ result = NoResult

\* `?` and `return Err(..)`: the invocation ends with the error.
Fail(lbl) ==
    /\ pc' = "done"
    /\ result' = ErrResult(lbl)

\* mod.rs 31-38: run_impl dispatches on the command name.
RunImpl ==
    /\ pc = "run_impl"
    /\ IF cmd = "dns query"
       THEN pc' = "input" /\ UNCHANGED result
       ELSE Fail("NoSuchCommandError")
    /\ UNCHANGED <<call, flags, sysconf, ran, locals, conn>>

\* mod.rs 42-56.  call.rest(0) yields Vec<Value>, a conversion that cannot
\* fail.
InputStep ==
    /\ pc = "input"
    /\ ran' = Append(ran, "input")
    /\ LET r == ResolveInput(pipe, args)
       IN  IF r.err # NoError
           THEN Fail(r.err) /\ UNCHANGED input
           ELSE input' = r.val /\ pc' = "names" /\ UNCHANGED result
    /\ UNCHANGED <<call, flags, sysconf, names, protocol, target, qtypes,
                   dns_class, dnssec_mode, conn>>

\* mod.rs 58-94.
NamesStep ==
    /\ pc = "names"
    /\ ran' = Append(ran, "names")
    /\ LET r == ParseNames(input)
       IN  IF r.err # NoError
           THEN Fail(r.err) /\ UNCHANGED names
           ELSE names' = r.val /\ pc' = "protocol" /\ UNCHANGED result
    /\ UNCHANGED <<call, flags, sysconf, input, protocol, target, qtypes,
                   dns_class, dnssec_mode, conn>>

\* mod.rs 96-99.
ProtocolStep ==
    /\ pc = "protocol"
    /\ ran' = Append(ran, "protocol")
    /\ \E f \in ProtocolFlags :
         /\ flags' = [flags EXCEPT !.protocol = f]
         /\ LET r == ResolveProtocol(f)
            IN  IF r.err # NoError
                THEN Fail(r.err) /\ UNCHANGED protocol
                ELSE protocol' = r.val /\ pc' = "server" /\ UNCHANGED result
    /\ UNCHANGED <<call, sysconf, input, names, target, qtypes, dns_class,
                   dnssec_mode, conn>>

\* mod.rs 101-138.
ServerStep ==
    /\ pc = "server"
    /\ ran' = Append(ran, "server")
    /\ \E f \in ServerFlags :
         /\ flags' = [flags EXCEPT !.server = f]
         /\ IF ReadsSystemConf(f)
            THEN sysconf' \in SystemConfs
            ELSE UNCHANGED sysconf
         /\ LET r == ResolveServer(f, protocol, sysconf')
            IN  IF r.err # NoError
                THEN Fail(r.err) /\ UNCHANGED target
                ELSE target' = r /\ pc' = "qtypes" /\ UNCHANGED result
    /\ UNCHANGED <<call, input, names, protocol, qtypes, dns_class,
                   dnssec_mode, conn>>

\* mod.rs 140-150.
TypesStep ==
    /\ pc = "qtypes"
    /\ ran' = Append(ran, "qtypes")
    /\ \E f \in TypeFlags :
         /\ flags' = [flags EXCEPT !.type = f]
         /\ LET r == ResolveTypes(f)
            IN  IF r.err # NoError
                THEN Fail(r.err) /\ UNCHANGED qtypes
                ELSE qtypes' = r.val /\ pc' = "class" /\ UNCHANGED result
    /\ UNCHANGED <<call, sysconf, input, names, protocol, target, dns_class,
                   dnssec_mode, conn>>

\* mod.rs 152-155.
ClassStep ==
    /\ pc = "class"
    /\ ran' = Append(ran, "class")
    /\ \E f \in ClassFlags :
         /\ flags' = [flags EXCEPT !.class = f]
         /\ LET r == ResolveClass(f)
            IN  IF r.err # NoError
                THEN Fail(r.err) /\ UNCHANGED dns_class
                ELSE dns_class' = r.val /\ pc' = "dnssec" /\ UNCHANGED result
    /\ UNCHANGED <<call, sysconf, input, names, protocol, target, qtypes,
                   dnssec_mode, conn>>

\* mod.rs 157-160.
DnssecStep ==
    /\ pc = "dnssec"
    /\ ran' = Append(ran, "dnssec")
    /\ \E f \in DnssecFlags :
         /\ flags' = [flags EXCEPT !.dnssec = f]
         /\ LET r == ResolveDnssec(f)
            IN  IF r.err # NoError
                THEN Fail(r.err) /\ UNCHANGED dnssec_mode
                ELSE dnssec_mode' = r.val /\ pc' = "connect" /\ UNCHANGED result
    /\ UNCHANGED <<call, sysconf, input, names, protocol, target, qtypes,
                   dns_class, conn>>

\* mod.rs 162: DnsClient::new(..).await?: the client and its background
\* driver, or the connection error.
Connect ==
    /\ pc = "connect"
    /\ \E ok \in BOOLEAN :
         IF ok
         THEN /\ client' = "connected"
              /\ bg' = BgBinding
              /\ pc' = "dispatch"
              /\ UNCHANGED result
         ELSE /\ Fail("ConnectionError")
              /\ UNCHANGED <<client, bg>>
    /\ UNCHANGED <<call, flags, sysconf, ran, locals, futures, reordered>>

\* mod.rs 164-169: the next query of the cross product is issued.
Issue ==
    /\ pc = "dispatch"
    /\ LET pairs == CrossProduct(names, qtypes)
       IN  /\ Len(futures) < Len(pairs)
           /\ futures' = Append(futures, NewQuery(pairs[Len(futures) + 1], dns_class))
    /\ UNCHANGED <<call, flags, sysconf, pc, ran, locals, client, bg,
                   reordered, result>>

\* mod.rs 170: the joined future is awaited.
BeginJoin ==
    /\ pc = "dispatch"
    /\ AllIssued(futures, CrossProduct(names, qtypes))
    /\ pc' = "join"
    /\ UNCHANGED <<call, flags, sysconf, ran, locals, conn, result>>

\* A pending query finishes, with a response or with an error.  The
\* connection makes progress only while its background driver runs.
Complete(i) ==
    /\ pc = "join"
    /\ bg = "alive"
    /\ futures[i].state = "pending"
    /\ \E st \in {"ok", "err"} :
         futures' = [futures EXCEPT ![i].state = st]
    /\ reordered' = (reordered \/ \E j \in 1..(i - 1) : futures[j].state = "pending")
    /\ UNCHANGED <<call, flags, sysconf, pc, ran, locals, client, bg, result>>

\* mod.rs 170-207: join_all is ready; the error or the output record is
\* returned, and the function's locals, the driver among them, are dropped.
Finish ==
    /\ pc = "join"
    /\ JoinReady(futures)
    /\ result' = Collect(futures, target)
    /\ pc' = "done"
    /\ bg' = "released"
    /\ client' = "none"
    /\ UNCHANGED <<call, flags, sysconf, ran, locals, futures, reordered>>

Next ==
    \/ RunImpl
    \/ InputStep
    \/ NamesStep
    \/ ProtocolStep
    \/ ServerStep
    \/ TypesStep
    \/ ClassStep
    \/ DnssecStep
    \/ Connect
    \/ Issue
    \/ BeginJoin
    \/ \E i \in 1..Len(futures) : Complete(i)
    \/ Finish

Spec == Init /\ [][Next]_vars

\* ------------------------------------------------------------ properties

\* The validation steps of Dns::query, in the order of the source.
StepOrder == <<"input", "names", "protocol", "server", "qtypes", "class", "dnssec">>

Ran(step) == \E i \in 1..Len(ran) : ran[i] = step

\* The labels of the errors raised after validation.
LateLabels == {"NoSuchCommandError", "ConnectionError", "DNSResponseError"}

\* The invocation ended with the error of a validation step.
FailedValidation ==
    pc = "done" /\ result.tag = "Err" /\ result.label \notin LateLabels

\* The step has run and has not failed.
Passed(step) ==
    Ran(step) /\ ~(FailedValidation /\ ran[Len(ran)] = step)

\* join_all has been handed its futures.
Dispatched ==
    \/ pc = "join"
    \/ pc = "done" /\ result.tag = "Ok"
    \/ pc = "done" /\ result.label = "DNSResponseError"

Returned == pc = "done"

\* The question of a query for (name, type) in the class of the call.
QuestionOf(name, qtype) ==
    [name |-> name, query_type |-> qtype, query_class |-> dns_class]

\* C1: one query is issued for every (name, type) pair, name-major, and on
\* full success the message at index (i-1)*|T|+j (counting from 1) is the
\* response to (N[i], T[j]), whatever the order in which the queries finish.
C1_CrossProductOrder ==
    Dispatched =>
        /\ Len(futures) = Len(names) * Len(qtypes)
        /\ \A i \in 1..Len(names) : \A j \in 1..Len(qtypes) :
             LET k == (i - 1) * Len(qtypes) + j
             IN  /\ futures[k].name = names[i]
                 /\ futures[k].qtype = qtypes[j]
        /\ (Returned /\ result.tag = "Ok") =>
             /\ Len(result.messages) = Len(names) * Len(qtypes)
             /\ \A i \in 1..Len(names) : \A j \in 1..Len(qtypes) :
                  result.messages[(i - 1) * Len(qtypes) + j].question
                      = <<QuestionOf(names[i], qtypes[j])>>

\* C1 witness: two distinct names and two distinct types, all four queries
\* succeeded, and not in the order they were issued.
C1_Witness ==
    /\ Returned /\ result.tag = "Ok"
    /\ Len(names) = 2 /\ names[1] # names[2]
    /\ Len(qtypes) = 2 /\ qtypes[1] # qtypes[2]
    /\ reordered

\* C2: when a query has failed the invocation returns the one error
\* DNSResponseError and no record: no nameserver, no message.
C2_AllOrNothing ==
    (Returned /\ \E i \in 1..Len(futures) : futures[i].state = "err") =>
        /\ result.tag = "Err"
        /\ result.label = "DNSResponseError"
        /\ result.messages = <<>>
        /\ result.nameserver = NoNameServer

\* C2 witness: of four queries one failed and three succeeded.
C2_Witness ==
    /\ Returned
    /\ Len(futures) = 4
    /\ Cardinality({i \in 1..Len(futures) : futures[i].state = "err"}) = 1
    /\ Cardinality({i \in 1..Len(futures) : futures[i].state = "ok"}) = 3

\* C3: no query finishes or is waited on before every query of the cross
\* product is issued, the outcome is produced only when every issued query
\* has finished, also after a failure, and no pair is issued twice.
C3_FanOutThenJoin ==
    /\ Len(futures) <= Len(names) * Len(qtypes)
    /\ (pc = "join" \/ \E i \in 1..Len(futures) : futures[i].state # "pending") =>
          Len(futures) = Len(names) * Len(qtypes)
    /\ (Returned /\ Dispatched) =>
          /\ Len(futures) = Len(names) * Len(qtypes)
          /\ \A i \in 1..Len(futures) : futures[i].state \in {"ok", "err"}

\* C3 witness: the first query issued failed first, and the error was
\* returned after the three others had finished as well.
C3_Witness ==
    /\ Returned /\ result.label = "DNSResponseError"
    /\ Len(futures) = 4
    /\ futures[1].state = "err"
    /\ \A i \in 2..4 : futures[i].state = "ok"
    /\ ~reordered

\* The name servers the system configuration yields: none when it cannot
\* be read.
SystemYields ==
    IF sysconf.state = "ok" THEN sysconf.name_servers ELSE <<>>

\* C4 (as claimed): nothing piped: the inputs are the positional arguments;
\* a piped value and arguments: AmbiguousInputError before anything else; a
\* piped value alone: the single input.
C4_InputSource ==
    Ran("input") =>
        /\ pipe.kind = "Nothing" => input = args
        /\ (pipe.kind # "Nothing" /\ args # <<>>) =>
             /\ Returned
             /\ result = ErrResult("AmbiguousInputError")
             /\ ran = <<"input">>
             /\ client = "none" /\ futures = <<>>
        /\ (pipe.kind # "Nothing" /\ args = <<>>) => input = <<pipe>>

\* C5 (as claimed): without --server, the first name server the system
\* yields, with its protocol whatever --protocol says; when the system
\* yields none, the first of the built-in default, with the explicit
\* protocol if given.
C5_SystemOrDefault ==
    (Passed("server") /\ flags.server = Absent) =>
        IF SystemYields # <<>>
        THEN /\ target.addr = SystemYields[1].socket_addr
             /\ target.protocol = SystemYields[1].protocol
        ELSE /\ target.addr = DefaultNameServers[1].socket_addr
             /\ target.protocol =
                  (IF protocol # NoProtocol THEN protocol
                   ELSE DefaultNameServers[1].protocol)

\* C6 (as claimed): --server as a string: host:port as written, a bare
\* address on port 53, else InvalidServerAddress; any other value:
\* InvalidServerAddressInputError; on success the explicit protocol, else
\* UDP; the system configuration is not read.
C6_ExplicitServer ==
    (Ran("server") /\ flags.server # Absent) =>
        /\ sysconf = ConfNotRead
        /\ IF flags.server.kind = "String"
           THEN LET s == flags.server.val
                IN  IF SocketAddrFromStr(s).ok
                    THEN /\ Passed("server")
                         /\ target.addr = SockAddr(s[1], PortOf[s[3]])
                    ELSE IF IpAddrFromStr(s).ok
                    THEN /\ Passed("server")
                         /\ target.addr = SockAddr(s[1], 53)
                    ELSE /\ Returned
                         /\ result = ErrResult("InvalidServerAddress")
           ELSE /\ Returned
                /\ result = ErrResult("InvalidServerAddressInputError")
        /\ Passed("server") =>
             target.protocol = (IF protocol # NoProtocol THEN protocol ELSE "Udp")

\* C7: the background driver is alive from the construction of the client
\* as long as a query is outstanding, and it is released when the
\* invocation returns after the construction, with a record or with an error.
C7_DriverLifetime ==
    /\ (\E i \in 1..Len(futures) : futures[i].state = "pending") => bg = "alive"
    /\ (pc \in {"dispatch", "join"}) => bg = "alive"
    /\ (Returned /\ Dispatched) => bg = "released"
    /\ (Returned /\ ~Dispatched) => bg = "none"

\* C7 witness: the invocation returned DNSResponseError after its queries
\* had been outstanding, and the driver is released.
C7_Witness ==
    /\ Returned /\ result.label = "DNSResponseError"
    /\ Len(futures) >= 2
    /\ bg = "released"

\* The error the name parser is claimed to give for an input, by its kind.
ClaimedNameError(v) ==
    CASE v.kind = "String" ->
           IF FromUtf8(v.val).ok THEN NoError ELSE "InvalidNameError"
      [] v.kind = "List" ->
           IF \E i \in 1..Len(v.val) : v.val[i].kind # "Binary"
           THEN "InvalidNameError"
           ELSE IF FromLabels([i \in 1..Len(v.val) |-> v.val[i].val]).ok
                THEN NoError ELSE "NameParseError"
      [] OTHER -> "InvalidInputTypeError"

\* C8 (as claimed): every input is parsed by its kind; on success one name
\* for every input, in input order; on failure no name and the error of
\* the first input that fails.
C8_NameParsing ==
    Ran("names") =>
        LET bad == {i \in 1..Len(input) : ClaimedNameError(input[i]) # NoError}
        IN  IF bad = {}
            THEN /\ Passed("names")
                 /\ Len(names) = Len(input)
                 /\ \A i \in 1..Len(input) :
                      names[i].labels =
                        (IF input[i].kind = "String"
                         THEN FromUtf8(input[i].val).name.labels
                         ELSE [j \in 1..Len(input[i].val) |-> input[i].val[j].val])
            ELSE LET k == CHOOSE i \in bad : \A j \in bad : i <= j
                 IN  /\ Returned
                     /\ result = ErrResult(ClaimedNameError(input[k]))
                     /\ names = <<>>

\* C9: without --type the record types are AAAA, A; without --class the
\* class is IN; without --dnssec the mode is Opportunistic; one --type
\* value gives that one type; a --type list gives a type for every
\* element, in order, or fails the invocation if one does not decode.
C9_QueryParameters ==
    /\ (Passed("qtypes") /\ flags.type = Absent) => qtypes = <<28, 1>>
    /\ (Passed("class") /\ flags.class = Absent) => dns_class = 1
    /\ (Passed("dnssec") /\ flags.dnssec = Absent) => dnssec_mode = "Opportunistic"
    /\ (Passed("qtypes") /\ flags.type.kind = "String") =>
          qtypes = <<RecordTypeOf[flags.type.val[1]]>>
    /\ (Ran("qtypes") /\ flags.type.kind = "List") =>
          LET vals == flags.type.val
          IN  IF \A i \in 1..Len(vals) : DecodeRType(vals[i]).err = NoError
              THEN /\ Passed("qtypes")
                   /\ Len(qtypes) = Len(vals)
                   /\ \A i \in 1..Len(vals) :
                        qtypes[i] = RecordTypeOf[vals[i].val[1]]
              ELSE /\ Returned
                   /\ result = ErrResult("RecordTypeDecodeError")
                   /\ client = "none" /\ futures = <<>>

\* C9 witness: a call with a --type list of two and no --class and no
\* --dnssec got as far as its queries.
C9_Witness ==
    /\ Dispatched
    /\ flags.type.kind = "List" /\ Len(qtypes) = 2
    /\ flags.class = Absent /\ flags.dnssec = Absent

\* The error of a validation step on the inputs it has read.
StepError(step) ==
    CASE step = "input"    -> ResolveInput(pipe, args).err
      [] step = "names"    -> ParseNames(input).err
      [] step = "protocol" -> ResolveProtocol(flags.protocol).err
      [] step = "server"   -> ResolveServer(flags.server, protocol, sysconf).err
      [] step = "qtypes"   -> ResolveTypes(flags.type).err
      [] step = "class"    -> ResolveClass(flags.class).err
      [] step = "dnssec"   -> ResolveDnssec(flags.dnssec).err

\* C10: the steps run in the fixed order; a client is constructed and a
\* query issued only after all seven have succeeded; the error returned is
\* that of the first step that fails, and no later step runs; an unknown
\* command returns NoSuchCommandError and runs no step; a --protocol value
\* that does not decode fails the invocation before the server is resolved.
C10_ValidateBeforeConnect ==
    /\ Len(ran) <= Len(StepOrder)
    /\ \A i \in 1..Len(ran) : ran[i] = StepOrder[i]
    /\ (client # "none" \/ bg # "none" \/ futures # <<>> \/ result.label \in
          {"ConnectionError", "DNSResponseError"} \/ result.tag = "Ok") =>
          /\ ran = StepOrder
          /\ \A i \in 1..Len(StepOrder) : StepError(StepOrder[i]) = NoError
    /\ FailedValidation =>
          /\ ran # <<>>
          /\ result.label = StepError(ran[Len(ran)])
          /\ \A i \in 1..(Len(ran) - 1) : StepError(ran[i]) = NoError
    /\ (cmd # "dns query" /\ pc # "run_impl") =>
          /\ Returned
          /\ result = ErrResult("NoSuchCommandError")
          /\ ran = <<>>
    /\ (flags.protocol # Unread /\ flags.protocol # Absent
          /\ DecodeProtocol(flags.protocol).err # NoError) =>
          /\ FailedValidation
          /\ result.label = DecodeProtocol(flags.protocol).err
          /\ flags.server = Unread /\ sysconf = ConfNotRead
          /\ client = "none"

\* C10 witness: names parsed, --protocol does not decode: the invocation
\* failed without reading --server or the system configuration.
C10_Witness ==
    /\ Returned
    /\ names # <<>>
    /\ flags.protocol = Str(<<"bogus">>)
    /\ result = ErrResult("ProtocolDecodeError")
    /\ ran = <<"input", "names", "protocol">>

====
